---- MODULE Spec2Model ----
(***************************************************************************)
(* Model of the ISGI student-feedback wizard (src/App.tsx) and of the      *)
(* feedbacks table it writes to (src/db_schema.sql).                       *)
(*                                                                         *)
(* The App component is a state machine over its useState cells.  Every    *)
(* event handler is one action; the passive effects that React runs after  *)
(* the render caused by a handler (draft persistence on [formData], stats  *)
(* refresh on [step, sidebarOpen]) are part of that action.  Asynchronous  *)
(* functions are split at their awaits: the part up to the first await     *)
(* belongs to the calling action, each continuation is an action of its    *)
(* own that fires when the awaited promise settles.                        *)
(*                                                                         *)
(* The QRScanner component (lines 47-124) is mounted while the step is     *)
(* 'scanner'.  Each run of its effect is a record of cameras; a run goes   *)
(* on after its cleanup whenever the camera request or a frame callback    *)
(* is still outstanding.                                                   *)
(*                                                                         *)
(* handleFormSubmit (lines 230-251) closes a try block at line 248 that    *)
(* the listing never opens.  The model reads the catch clause as guarding  *)
(* everything after setStep('submitting'), the throw of line 239 included. *)
(***************************************************************************)
EXTENDS Integers, Sequences, FiniteSets, Bags, TLC

VARIABLES
  step,                 \* useState<AppStep>, line 127
  sidebarOpen,          \* line 128
  showValidationErrors, \* line 129
  completedSubjects,    \* line 130, a list (duplicates kept)
  envAuditDone,         \* line 131
  lastSubmissionId,     \* line 132
  adminPasswordInput,   \* line 133
  isAdminAuthenticated, \* line 134
  studentId,            \* line 135
  globalStats,          \* line 138
  envStats,             \* line 139
  subjectsBreakdown,    \* line 140
  formData,             \* line 148
  localStorage,         \* the browser's key/value store (lines 150, 158, 245)
  feedbacks,            \* rows of table feedbacks (db_schema.sql 12-28)
  setup,                \* the initStudent() call of lines 161-171
  pipelines,            \* handleFormSubmit runs suspended at an await
  refreshes,            \* refreshStats runs suspended at Promise.all
  cameras,              \* runs of the QRScanner effect (lines 52-92) that still
                        \* hold a stream, a scheduled frame or a pending request
  lastRun,              \* history: call log of the handleFormSubmit run that set
                        \* the step now shown; empty once the student moved on
  lastEvent,            \* history: the handler that ran last, with its input
  restored              \* history: the formData in memory when the page was last
                        \* reloaded, until a handler replaces the draft

vars == <<step, sidebarOpen, showValidationErrors, completedSubjects, envAuditDone,
          lastSubmissionId, adminPasswordInput, isAdminAuthenticated, studentId,
          globalStats, envStats, subjectsBreakdown, formData, localStorage,
          feedbacks, setup, pipelines, refreshes, cameras, lastRun, lastEvent,
          restored>>

----------------------------------------------------------------------------
(* Bounds of the model *)

\* rows the feedbacks table may hold
MaxRows == 2
\* refreshStats runs a user action may leave in flight
MaxRefreshes == 1
\* handleFormSubmit runs that may be suspended together
MaxPipelines == 1
\* how many of the GI_SUBJECTS the student picks on the grid or scans
NumPicked == 1
\* runs of the QRScanner effect kept track of together
MaxCameras == 2
\* rows of the table left by earlier sessions
MaxHistory == 3
\* how many of the GI_SUBJECTS those rows are about
NumHistorySubjects == 3

----------------------------------------------------------------------------
(* Program constants *)

\* Lines 31-43.  The accented letters of the names are written unaccented: the
\* model checker's state files hold ASCII strings only.
GI_SUBJECTS ==
  << "Algebre 1",
     "Algorithmique et Programmation C",
     "Analyse 1",
     "Anglais 1",
     "Circuits Electriques",
     "Circuits Electroniques",
     "Environnement Informatique",
     "Francais 1",
     "Introduction au Genie Industriel",
     "Mecanique generale",
     "Probabilites et Statistiques" >>

DRAFT_KEY == "isgi_feedback_draft_v2"

ENV_SUBJECT == "ENVIRONNEMENT_GLOBAL"

ADMIN_PASSWORD == "ADMIN2026"

AppStep == {"welcome", "hub", "scanner", "modules", "form_pedagogy", "form_env",
            "submitting", "thanks"}

\* The characters of a subject name (TLC cannot index a string).
Chars(x) ==
  CASE x = "Algebre 1" -> <<"A", "l", "g", "e", "b", "r", "e", " ", "1">>
    [] x = "Algorithmique et Programmation C" -> <<"A", "l", "g", "o", "r", "i", "t", "h", "m", "i", "q", "u", "e", " ", "e", "t", " ", "P", "r", "o", "g", "r", "a", "m", "m", "a", "t", "i", "o", "n", " ", "C">>
    [] x = "Analyse 1" -> <<"A", "n", "a", "l", "y", "s", "e", " ", "1">>
    [] x = "Anglais 1" -> <<"A", "n", "g", "l", "a", "i", "s", " ", "1">>
    [] x = "Circuits Electriques" -> <<"C", "i", "r", "c", "u", "i", "t", "s", " ", "E", "l", "e", "c", "t", "r", "i", "q", "u", "e", "s">>
    [] x = "Circuits Electroniques" -> <<"C", "i", "r", "c", "u", "i", "t", "s", " ", "E", "l", "e", "c", "t", "r", "o", "n", "i", "q", "u", "e", "s">>
    [] x = "Environnement Informatique" -> <<"E", "n", "v", "i", "r", "o", "n", "n", "e", "m", "e", "n", "t", " ", "I", "n", "f", "o", "r", "m", "a", "t", "i", "q", "u", "e">>
    [] x = "Francais 1" -> <<"F", "r", "a", "n", "c", "a", "i", "s", " ", "1">>
    [] x = "Introduction au Genie Industriel" -> <<"I", "n", "t", "r", "o", "d", "u", "c", "t", "i", "o", "n", " ", "a", "u", " ", "G", "e", "n", "i", "e", " ", "I", "n", "d", "u", "s", "t", "r", "i", "e", "l">>
    [] x = "Mecanique generale" -> <<"M", "e", "c", "a", "n", "i", "q", "u", "e", " ", "g", "e", "n", "e", "r", "a", "l", "e">>
    [] x = "Probabilites et Statistiques" -> <<"P", "r", "o", "b", "a", "b", "i", "l", "i", "t", "e", "s", " ", "e", "t", " ", "S", "t", "a", "t", "i", "s", "t", "i", "q", "u", "e", "s">>

----------------------------------------------------------------------------
(* JavaScript values held by the answer fields: null, a number or a string *)

Null == [t |-> "null", n |-> 0, s |-> ""]

Num(k) == [t |-> "number", n |-> k, s |-> ""]

Str(x) == [t |-> "string", n |-> 0, s |-> x]

PedagogyFields == <<"q1", "q2", "q3", "q4", "q5">>

EnvFields == <<"q6_jobs", "q7_rooms", "q8_resources", "q9_transport", "q10_laptop">>

AnswerFields == PedagogyFields \o EnvFields

Range(seq) == {seq[i] : i \in DOMAIN seq}

\* The values the student gives to a question: QuestionCard's scale for the
\* numeric questions, the options of lines 521, 524, 525 for the others.
Answers(f) ==
  CASE f = "q6_jobs" -> {Str("Oui")}
    [] f = "q9_transport" -> {Str("Bus")}
    [] f = "q10_laptop" -> {Str("Non")}
    [] OTHER -> {Num(3)}

\* What the student types in the comments box.
Comments == {"RAS"}

initialFormData ==
  [subject |-> "", q1 |-> Null, q2 |-> Null, q3 |-> Null, q4 |-> Null, q5 |-> Null,
   q6_jobs |-> Null, q7_rooms |-> Null, q8_resources |-> Null, q9_transport |-> Null,
   q10_laptop |-> Null, comments |-> ""]

----------------------------------------------------------------------------
(* JSON.stringify / JSON.parse of a FeedbackData, member by member *)

JSONnumber(k) == ToString(k)

JSONstring(x) == "\"" \o x \o "\""

JSONvalue(v) ==
  CASE v.t = "null" -> "null"
    [] v.t = "number" -> JSONnumber(v.n)
    [] v.t = "string" -> JSONstring(v.s)

JSONstringify(fd) ==
  <<JSONstring(fd.subject)>> \o [i \in 1..Len(AnswerFields) |-> JSONvalue(fd[AnswerFields[i]])]
    \o <<JSONstring(fd.comments)>>

\* Every value a member of a saved draft can hold.
JSValues == {Null} \cup UNION {Answers(f) : f \in Range(AnswerFields)}

JSStrings == {""} \cup Range(GI_SUBJECTS) \cup {ENV_SUBJECT} \cup Comments

ParseValue(text) == CHOOSE v \in JSValues : JSONvalue(v) = text

ParseString(text) == CHOOSE x \in JSStrings : JSONstring(x) = text

JSONparse(json) ==
  [subject |-> ParseString(json[1]),
   q1 |-> ParseValue(json[2]), q2 |-> ParseValue(json[3]), q3 |-> ParseValue(json[4]),
   q4 |-> ParseValue(json[5]), q5 |-> ParseValue(json[6]),
   q6_jobs |-> ParseValue(json[7]), q7_rooms |-> ParseValue(json[8]),
   q8_resources |-> ParseValue(json[9]), q9_transport |-> ParseValue(json[10]),
   q10_laptop |-> ParseValue(json[11]),
   comments |-> ParseString(json[12])]

\* localStorage is a function from the keys it holds to their strings.
NoStorage == [k \in {} |-> <<>>]

getItem(store, key) == IF key \in DOMAIN store THEN <<store[key]>> ELSE <<>>

setItem(store, key, value) == [k \in DOMAIN store \cup {key} |-> IF k = key THEN value ELSE store[k]]

removeItem(store, key) == [k \in DOMAIN store \ {key} |-> store[k]]

\* An initialiser that never reads the stored draft.
LoadDraftIgnored(store) == initialFormData

\* useState initialiser of formData, lines 148-155.
LoadDraft(store) ==
  LET saved == getItem(store, DRAFT_KEY)
  IN  IF saved # <<>> THEN JSONparse(saved[1]) ELSE initialFormData

\* The effect of lines 157-159, run after every render that changed formData.
PersistDraft(store, fd) == setItem(store, DRAFT_KEY, JSONstringify(fd))

----------------------------------------------------------------------------
(* Derived values of a render *)

\* Truncation in place of rounding.
MathFloor(num, den) == num \div den

\* Math.round on a non-negative quotient num/den: floor(num/den + 1/2).
MathRound(num, den) == (2 * num + den) \div (2 * den)

\* array.filter(v => v !== null).length
CountNonNull(fd, fields) == Cardinality({i \in DOMAIN fields : fd[fields[i]] # Null})

\* A count that always reads the course questions, whatever the subject.
progressStatsCourseOnly(fd) ==
  LET completed == CountNonNull(fd, PedagogyFields)
  IN  [percentage |-> MathRound(completed * 100, 5), completed |-> completed, total |-> 5]

progressStats(fd) ==
  LET isEnv == fd.subject = ENV_SUBJECT
      fields == IF isEnv THEN EnvFields ELSE PedagogyFields
      completed == CountNonNull(fd, fields)
  IN  [percentage |-> MathRound(completed * 100, 5), completed |-> completed, total |-> 5]

Includes(list, x) == \E i \in DOMAIN list : list[i] = x

getSubjectStatus(name) ==
  IF Includes(completedSubjects, name) THEN "Termine"
  ELSE IF formData.subject = name /\ progressStats(formData).completed > 0 THEN "En cours"
  ELSE "A faire"

totalStepsCount == Len(GI_SUBJECTS) + 1

currentProgressCount == Len(completedSubjects) + (IF envAuditDone THEN 1 ELSE 0)

globalProgression == MathRound(currentProgressCount * 100, totalStepsCount)

\* GI_SUBJECTS.find(s => !completedSubjects.includes(s)); <<>> stands for undefined
firstUncompleted ==
  LET open == {i \in DOMAIN GI_SUBJECTS : ~Includes(completedSubjects, GI_SUBJECTS[i])}
  IN  IF open = {} THEN <<>>
      ELSE <<GI_SUBJECTS[CHOOSE i \in open : \A j \in open : i <= j]>>

----------------------------------------------------------------------------
(* The backend: table feedbacks and the queries of storageService *)

\* The row saveFeedback(formData, studentId) inserts; id stands for the uuid
\* the table generates (uuid_generate_v4), distinct for every row.
FeedbackRow(fd, sid, rows) ==
  [id |-> "fb" \o ToString(Len(rows) + 1), student_id |-> sid, subject |-> fd.subject,
   q1 |-> fd.q1, q2 |-> fd.q2, q3 |-> fd.q3, q4 |-> fd.q4, q5 |-> fd.q5,
   q6_jobs |-> fd.q6_jobs, q7_rooms |-> fd.q7_rooms, q8_resources |-> fd.q8_resources,
   q9_transport |-> fd.q9_transport, q10_laptop |-> fd.q10_laptop,
   comments |-> fd.comments]

\* The id initStudent() resolves to on this device.
STUDENT == "stu1"

\* A query answered when the table held its first n rows sees exactly those.
Snapshot(n) == SubSeq(feedbacks, 1, n)

Count(rows, P(_)) == Cardinality({i \in DOMAIN rows : P(rows[i])})

getHistory(rows) == SelectSeq(rows, LAMBDA e : e.student_id = STUDENT)

getGlobalStats(rows) ==
  [totalFeedbacks |-> Len(rows),
   uniqueSubjects |-> Cardinality({rows[i].subject : i \in DOMAIN rows}),
   globalAverageScore |-> 0]

getEnvironmentStats(rows) ==
  LET yes == Count(rows, LAMBDA e : e.q10_laptop = Str("Oui"))
      no == Count(rows, LAMBDA e : e.q10_laptop = Str("Non"))
      modes == {rows[i].q9_transport.s : i \in {j \in DOMAIN rows : rows[j].q9_transport # Null}}
  IN  [transport |-> [m \in modes |-> Count(rows, LAMBDA e : e.q9_transport = Str(m))],
       laptop |-> [yes |-> yes, no |-> no,
                   rate |-> IF yes + no = 0 THEN 0 ELSE MathRound(yes * 100, yes + no)]]

getSubjectsBreakdown(rows) ==
  [s \in {rows[i].subject : i \in DOMAIN rows} |-> Count(rows, LAMBDA e : e.subject = s)]

----------------------------------------------------------------------------
(* refreshStats, lines 173-191, and the effect of lines 193-195 *)

\* A refreshStats run waiting at the await of line 175.  Its four queries are
\* answered some time between the call and the moment Promise.all settles;
\* since is the number of rows the table held when they were sent.
\* answered holds, for each query already fulfilled, the number of rows its
\* answer shows.
Queries == {"getGlobalStats", "getEnvironmentStats", "getSubjectsBreakdown", "getHistory"}

RefreshAt(n) == [since |-> n, answered |-> [q \in Queries |-> <<>>]]

NewRefresh == RefreshAt(Len(feedbacks))

\* history.filter(e => e.subject !== 'ENVIRONNEMENT_GLOBAL').map(e => e.subject)
CompletedOf(history) ==
  LET kept == SelectSeq(history, LAMBDA e : e.subject # ENV_SUBJECT)
  IN  [i \in 1..Len(kept) |-> kept[i].subject]

\* history.some(e => e.subject === 'ENVIRONNEMENT_GLOBAL')
EnvDoneOf(history) == \E i \in DOMAIN history : history[i].subject = ENV_SUBJECT

\* useEffect(() => { refreshStats() }, [step, sidebarOpen]): a render in which
\* step or sidebarOpen differs from the previous one starts a refresh.
RefreshEffect(newStep, newSidebar, inFlight) ==
  IF newStep # step \/ newSidebar # sidebarOpen
  THEN inFlight (+) SetToBag({NewRefresh})
  ELSE inFlight

\* A user gesture that re-renders is taken only while the refreshes already
\* in flight leave room for the one it starts.
RoomForRefresh == BagCardinality(refreshes) < MaxRefreshes

PanelVars == <<globalStats, envStats, subjectsBreakdown, completedSubjects, envAuditDone>>

AdminVars == <<adminPasswordInput, isAdminAuthenticated>>

\* The handler that ran, with the input it was given.
Event(op, arg) == <<op, arg>>

\* A run of the QRScanner effect, lines 52-92.  acquire is the getUserMedia
\* request of line 58 and the stream it gave ("pending", "live", "stopped",
\* "denied"); frame is the callback requestAnimationFrame holds for the run:
\* "none", "untracked" when scheduled by line 63, which does not keep the id,
\* "tracked" when scheduled by line 84, which keeps it in animationFrameId;
\* cleaned tells that the cleanup of lines 88-91 has run, and unmounted that
\* the QRScanner of the run is gone, so that its videoRef.current is null.
NewCamera == [acquire |-> "pending", frame |-> "none", cleaned |-> FALSE, unmounted |-> FALSE]

\* The cleanup of lines 88-91: the tracks are stopped if stream is set, and
\* the frame whose id is in animationFrameId is cancelled.
Cleanup(c) ==
  IF c.cleaned THEN c
  ELSE [c EXCEPT !.cleaned = TRUE,
                 !.acquire = IF @ = "live" THEN "stopped" ELSE @,
                 !.frame = IF @ = "tracked" THEN "none" ELSE @]

\* The QRScanner is removed from the page (line 261).
Unmount(c) == [Cleanup(c) EXCEPT !.unmounted = TRUE]

\* A run that holds nothing and awaits nothing any more.
Finished(c) ==
  /\ c.cleaned
  /\ c.frame = "none"
  /\ c.acquire = "stopped" \/ (c.acquire = "denied" /\ c.unmounted)

Unfinished(cams) == SelectSeq(cams, LAMBDA c : ~Finished(c))

\* The effect runs after App renders with step newStep, the runs being cams
\* before: onScan is a new function at every render of App (line 263), so a
\* render that keeps the scanner re-runs the effect (deps [onScan], line 92).
AfterRender(cams, newStep) ==
  LET left == IF step # "scanner" THEN cams
              ELSE IF newStep = "scanner" THEN [i \in DOMAIN cams |-> Cleanup(cams[i])]
              ELSE [i \in DOMAIN cams |-> Unmount(cams[i])]
  IN  IF newStep = "scanner" THEN Append(Unfinished(left), NewCamera) ELSE Unfinished(left)

\* App renders with step newStep; a render that starts a run of the effect
\* is taken only while the runs kept track of leave room for it.
Rendered(cams, newStep) ==
  /\ Len(AfterRender(cams, newStep)) <= MaxCameras
  /\ cameras' = AfterRender(cams, newStep)

\* Promise.all resolves for run r, and lines 182-187 store the four answers:
\* the answer to each query shows the table as it was when it held ngs, nes,
\* nsb, nh rows, a moment between the call and now.
RefreshResolved(r, ngs, nes, nsb, nh) ==
  /\ BagIn(r, refreshes)
  /\ {ngs, nes, nsb, nh} \subseteq r.since..Len(feedbacks)
  /\ globalStats' = getGlobalStats(Snapshot(ngs))
  /\ envStats' = getEnvironmentStats(Snapshot(nes))
  /\ subjectsBreakdown' = getSubjectsBreakdown(Snapshot(nsb))
  /\ completedSubjects' = CompletedOf(getHistory(Snapshot(nh)))
  /\ envAuditDone' = EnvDoneOf(getHistory(Snapshot(nh)))
  /\ refreshes' = refreshes (-) SetToBag({r})
  /\ lastEvent' = Event("refreshResolved", <<>>)
  /\ Rendered(cameras, step)
  /\ UNCHANGED <<step, sidebarOpen, showValidationErrors, lastSubmissionId, AdminVars,
                 studentId, formData, localStorage, feedbacks, setup, pipelines, lastRun,
                 restored>>

\* A query of run r that stores its answer as soon as it has it.
QueryFulfilledStoredAtOnce(r, q, n) ==
  /\ BagIn(r, refreshes)
  /\ r.answered[q] = <<>>
  /\ n \in r.since..Len(feedbacks)
  /\ refreshes' = (refreshes (-) SetToBag({r}))
                    (+) SetToBag({[r EXCEPT !.answered[q] = <<n>>]})
  /\ globalStats' = IF q = "getGlobalStats" THEN getGlobalStats(Snapshot(n)) ELSE globalStats
  /\ envStats' = IF q = "getEnvironmentStats" THEN getEnvironmentStats(Snapshot(n))
                 ELSE envStats
  /\ subjectsBreakdown' = IF q = "getSubjectsBreakdown" THEN getSubjectsBreakdown(Snapshot(n))
                          ELSE subjectsBreakdown
  /\ completedSubjects' = IF q = "getHistory" THEN CompletedOf(getHistory(Snapshot(n)))
                          ELSE completedSubjects
  /\ envAuditDone' = IF q = "getHistory" THEN EnvDoneOf(getHistory(Snapshot(n)))
                     ELSE envAuditDone
  /\ lastEvent' = Event("queryFulfilled", <<q>>)
  /\ UNCHANGED cameras
  /\ UNCHANGED <<step, sidebarOpen, showValidationErrors, lastSubmissionId, AdminVars,
                 studentId, formData, localStorage, feedbacks, setup, pipelines, lastRun,
                 restored>>

\* Query q of run r is fulfilled with the table as it was at n rows while
\* another query of the run is still awaited: Promise.all (lines 175-180)
\* keeps the answer and the run stays at its await.
QueryFulfilled(r, q, n) ==
  /\ BagIn(r, refreshes)
  /\ r.answered[q] = <<>>
  /\ n \in r.since..Len(feedbacks)
  /\ refreshes' = (refreshes (-) SetToBag({r}))
                    (+) SetToBag({[r EXCEPT !.answered[q] = <<n>>]})
  /\ lastEvent' = Event("queryFulfilled", <<q>>)
  /\ UNCHANGED cameras
  /\ UNCHANGED <<step, sidebarOpen, showValidationErrors, PanelVars, lastSubmissionId,
                 AdminVars, studentId, formData, localStorage, feedbacks, setup,
                 pipelines, lastRun, restored>>

\* The four queries of run r are fulfilled: Promise.all resolves with the
\* answers it kept.
PromiseAllFulfilled(r) ==
  /\ \A q \in Queries : r.answered[q] # <<>>
  /\ RefreshResolved(r, r.answered["getGlobalStats"][1], r.answered["getEnvironmentStats"][1],
                        r.answered["getSubjectsBreakdown"][1], r.answered["getHistory"][1])

\* One of the queries of run r fails: Promise.all rejects, and the catch of
\* line 188 only logs.
RefreshRejected(r) ==
  /\ BagIn(r, refreshes)
  /\ refreshes' = refreshes (-) SetToBag({r})
  /\ lastEvent' = Event("refreshRejected", <<>>)
  /\ UNCHANGED cameras
  /\ UNCHANGED <<step, sidebarOpen, showValidationErrors, PanelVars, lastSubmissionId,
                 AdminVars, studentId, formData, localStorage, feedbacks, setup,
                 pipelines, lastRun, restored>>

----------------------------------------------------------------------------
(* Start-up: the state after the first render and its effects *)

\* The useState initial values of lines 127-155 over a given localStorage and
\* table, followed by the three mount effects (lines 157, 161, 193).
Boot(store, rows) ==
  [step |-> "welcome",
   sidebarOpen |-> FALSE,
   showValidationErrors |-> FALSE,
   completedSubjects |-> <<>>,
   envAuditDone |-> FALSE,
   lastSubmissionId |-> "",
   adminPasswordInput |-> "",
   isAdminAuthenticated |-> FALSE,
   studentId |-> "",
   globalStats |-> [totalFeedbacks |-> 0, uniqueSubjects |-> 0, globalAverageScore |-> 0],
   envStats |-> [transport |-> NoStorage, laptop |-> [yes |-> 0, no |-> 0, rate |-> 0]],
   subjectsBreakdown |-> NoStorage,
   formData |-> LoadDraft(store),
   localStorage |-> PersistDraft(store, LoadDraft(store)),
   setup |-> "pending",
   refreshes |-> SetToBag({RefreshAt(Len(rows))})]

\* The page opened on a device whose storage is store, over a table rows.
Opened(store, rows) ==
  LET b == Boot(store, rows)
  IN  /\ step = b.step
      /\ sidebarOpen = b.sidebarOpen
      /\ showValidationErrors = b.showValidationErrors
      /\ completedSubjects = b.completedSubjects
      /\ envAuditDone = b.envAuditDone
      /\ lastSubmissionId = b.lastSubmissionId
      /\ adminPasswordInput = b.adminPasswordInput
      /\ isAdminAuthenticated = b.isAdminAuthenticated
      /\ studentId = b.studentId
      /\ globalStats = b.globalStats
      /\ envStats = b.envStats
      /\ subjectsBreakdown = b.subjectsBreakdown
      /\ formData = b.formData
      /\ localStorage = b.localStorage
      /\ setup = b.setup
      /\ refreshes = b.refreshes
      /\ feedbacks = rows
      /\ pipelines = <<>>
      /\ lastRun = <<>>
      /\ cameras = <<>>
      /\ lastEvent = Event("open", <<>>)
      /\ restored = <<>>

\* First visit: nothing stored on the device, an empty table.
Init == Opened(NoStorage, <<>>)

\* The page is loaded again: the component is built anew over the stored
\* draft, and whatever the old page was awaiting is never resumed.
Reload ==
  LET b == Boot(localStorage, feedbacks)
  IN  /\ step' = b.step
      /\ sidebarOpen' = b.sidebarOpen
      /\ showValidationErrors' = b.showValidationErrors
      /\ completedSubjects' = b.completedSubjects
      /\ envAuditDone' = b.envAuditDone
      /\ lastSubmissionId' = b.lastSubmissionId
      /\ adminPasswordInput' = b.adminPasswordInput
      /\ isAdminAuthenticated' = b.isAdminAuthenticated
      /\ studentId' = b.studentId
      /\ globalStats' = b.globalStats
      /\ envStats' = b.envStats
      /\ subjectsBreakdown' = b.subjectsBreakdown
      /\ formData' = b.formData
      /\ localStorage' = b.localStorage
      /\ setup' = b.setup
      /\ refreshes' = b.refreshes
      /\ pipelines' = <<>>
      /\ lastRun' = <<>>
      /\ cameras' = <<>>
      /\ lastEvent' = Event("reload", <<>>)
      /\ restored' = <<formData>>
      /\ UNCHANGED feedbacks

\* setup(), lines 162-169: initStudent() resolves and the id is stored ...
SetupResolved ==
  /\ setup = "pending"
  /\ setup' = "done"
  /\ studentId' = STUDENT
  /\ lastEvent' = Event("setupResolved", <<>>)
  /\ Rendered(cameras, step)
  /\ UNCHANGED <<step, sidebarOpen, showValidationErrors, PanelVars, lastSubmissionId,
                 AdminVars, formData, localStorage, feedbacks, pipelines, refreshes,
                 lastRun, restored>>

\* ... or rejects, and the catch of line 166 leaves studentId empty.
SetupRejected ==
  /\ setup = "pending"
  /\ setup' = "failed"
  /\ lastEvent' = Event("setupRejected", <<>>)
  /\ UNCHANGED cameras
  /\ UNCHANGED <<step, sidebarOpen, showValidationErrors, PanelVars, lastSubmissionId,
                 AdminVars, studentId, formData, localStorage, feedbacks, pipelines,
                 refreshes, lastRun, restored>>

----------------------------------------------------------------------------
(* Navigation *)

\* setStep(target) from a click, with the refresh effect of the new render.
GoTo(target, event) ==
  /\ RoomForRefresh
  /\ step' = target
  /\ refreshes' = RefreshEffect(target, sidebarOpen, refreshes)
  /\ lastRun' = <<>>
  /\ lastEvent' = event
  /\ Rendered(cameras, target)
  /\ UNCHANGED <<sidebarOpen, showValidationErrors, PanelVars, lastSubmissionId, AdminVars,
                 studentId, formData, localStorage, feedbacks, setup, pipelines, restored>>

\* A logo that a pointer reaches on every screen.
HeaderReachableUnderLayers == TRUE

\* The scanner (line 95) and the submitting screen (line 542) are fixed
\* full-screen layers at z-200, above the header (z-50): the logo, a div that
\* only a pointer can activate, is out of reach under them.
HeaderReachable == step \notin {"scanner", "submitting"}

\* Header logo, line 400.
LogoClick == HeaderReachable /\ step # "welcome" /\ GoTo("welcome", Event("logo", <<>>))

\* Welcome screen button, line 419.
WelcomeStart == step = "welcome" /\ GoTo("hub", Event("welcomeStart", <<>>))

\* Hub QR button, line 456.
OpenScanner == step = "hub" /\ GoTo("scanner", Event("openScanner", <<>>))

\* QRScanner onClose, line 264.
CloseScanner == step = "scanner" /\ GoTo("hub", Event("closeScanner", <<>>))

\* Form back arrow, line 506.
FormBack == step \in {"form_pedagogy", "form_env"} /\ GoTo("hub", Event("formBack", <<>>))

\* A thanks button that goes to the welcome screen.
ThanksBackToWelcome == step = "thanks" /\ GoTo("welcome", Event("thanksBack", <<>>))

\* Thanks screen button, line 557.
ThanksBack == step = "thanks" /\ GoTo("hub", Event("thanksBack", <<>>))

\* A menu button that also brings the wizard home.
SetSidebarGoesHome(open) ==
  /\ RoomForRefresh
  /\ sidebarOpen # open
  /\ sidebarOpen' = open
  /\ step' = "welcome"
  /\ refreshes' = RefreshEffect("welcome", open, refreshes)
  /\ lastEvent' = Event("sidebar", <<>>)
  /\ Rendered(cameras, "welcome")
  /\ UNCHANGED <<showValidationErrors, PanelVars, lastSubmissionId, AdminVars,
                 studentId, formData, localStorage, feedbacks, setup, pipelines, lastRun,
                 restored>>

\* Header menu button (line 404) and sidebar close button (line 275).  Both
\* are buttons, which the keyboard reaches under the full-screen layers too.
SetSidebar(open) ==
  /\ RoomForRefresh
  /\ sidebarOpen # open
  /\ sidebarOpen' = open
  /\ refreshes' = RefreshEffect(step, open, refreshes)
  /\ lastEvent' = Event("sidebar", <<>>)
  /\ Rendered(cameras, step)
  /\ UNCHANGED <<step, showValidationErrors, PanelVars, lastSubmissionId, AdminVars,
                 studentId, formData, localStorage, feedbacks, setup, pipelines, lastRun,
                 restored>>

----------------------------------------------------------------------------
(* Admin console, lines 268-396 *)

\* The texts typed into the password field.
AdminInputs == {"", "ADMIN2026", "admin2026", "ADMIN2026 "}

\* Password field onChange, line 292; the field is rendered while the console
\* is locked (line 278).
SetAdminPasswordInput(text) ==
  /\ ~isAdminAuthenticated
  /\ text # adminPasswordInput
  /\ adminPasswordInput' = text
  /\ lastEvent' = Event("adminInput", <<text>>)
  /\ Rendered(cameras, step)
  /\ UNCHANGED <<step, sidebarOpen, showValidationErrors, PanelVars, lastSubmissionId,
                 isAdminAuthenticated, studentId, formData, localStorage, feedbacks,
                 setup, pipelines, refreshes, lastRun, restored>>

\* A gate that opens for any text.
PasswordAcceptedAlways(input) == TRUE

\* adminPasswordInput === 'ADMIN2026', line 299
PasswordAccepted(input) == input = ADMIN_PASSWORD

\* "Authentification" button, lines 296-301: the console unlocks on the
\* password, and an alert is shown otherwise.
AdminLogin ==
  /\ ~isAdminAuthenticated
  /\ isAdminAuthenticated' = PasswordAccepted(adminPasswordInput)
  /\ lastEvent' = Event("adminLogin", <<adminPasswordInput>>)
  /\ IF PasswordAccepted(adminPasswordInput) THEN Rendered(cameras, step)
     ELSE UNCHANGED cameras
  /\ UNCHANGED <<step, sidebarOpen, showValidationErrors, PanelVars, lastSubmissionId,
                 adminPasswordInput, studentId, formData, localStorage, feedbacks,
                 setup, pipelines, refreshes, lastRun, restored>>

\* "Export Donnees CSV" button, lines 385-392, rendered in the unlocked
\* console only (line 278): downloadHistoryCSV() is called, which downloads a
\* file and leaves the state of the page as it is.
downloadHistoryCSV ==
  /\ isAdminAuthenticated
  /\ lastEvent' = Event("downloadHistoryCSV", <<>>)
  /\ UNCHANGED cameras
  /\ UNCHANGED <<step, sidebarOpen, showValidationErrors, PanelVars, lastSubmissionId,
                 AdminVars, studentId, formData, localStorage, feedbacks, setup,
                 pipelines, refreshes, lastRun, restored>>

----------------------------------------------------------------------------
(* Entering a form, lines 212-228 *)

\* A start that changes the subject and keeps the answers.
FormOnStartKeepsAnswers(fd, subject) == [fd EXCEPT !.subject = subject]

\* A start that always blanks the form.
FormOnStartAlwaysBlank(fd, subject) == [initialFormData EXCEPT !.subject = subject]

\* The formData a start leaves: a blank record for the subject unless the
\* current one already is that subject's.
FormOnStart(fd, subject) ==
  IF fd.subject # subject THEN [initialFormData EXCEPT !.subject = subject] ELSE fd

StartForm(cams, subject, target, event) ==
  /\ RoomForRefresh
  /\ Rendered(cams, target)
  /\ formData' = FormOnStart(formData, subject)
  /\ localStorage' = IF formData.subject # subject
                     THEN PersistDraft(localStorage, FormOnStart(formData, subject))
                     ELSE localStorage
  /\ step' = target
  /\ showValidationErrors' = FALSE
  /\ refreshes' = RefreshEffect(target, sidebarOpen, refreshes)
  /\ lastRun' = <<>>
  /\ lastEvent' = event
  /\ restored' = IF restored # <<>> /\ restored[1].subject = subject THEN restored ELSE <<>>
  /\ UNCHANGED <<sidebarOpen, PanelVars, lastSubmissionId, AdminVars, studentId, feedbacks,
                 setup, pipelines>>

startPedagogy(cams, subject, event) == StartForm(cams, subject, "form_pedagogy", event)

\* An environment audit shown on the course form.
startEnvAuditOnCourseForm(event) == StartForm(cameras, ENV_SUBJECT, "form_pedagogy", event)

startEnvAudit(event) == StartForm(cameras, ENV_SUBJECT, "form_env", event)

\* The subjects the student clicks on the grid or scans.
Picked == {GI_SUBJECTS[i] : i \in 1..NumPicked}

\* Grid button of subject s, line 466: !isDone && startPedagogy(s).
HubSubject(s) ==
  /\ step = "hub"
  /\ getSubjectStatus(s) # "Termine"
  /\ startPedagogy(cameras, s, Event("hubSubject", <<s>>))

\* Environment button, line 482.
HubEnvironment == step = "hub" /\ startEnvAudit(Event("hubEnvironment", <<>>))

\* "Prochaine Etape" button, lines 490-491, rendered when firstUncompleted is defined.
HubNextStep ==
  /\ step = "hub"
  /\ firstUncompleted # <<>>
  /\ startPedagogy(cameras, firstUncompleted[1], Event("hubNextStep", <<>>))

----------------------------------------------------------------------------
(* QR scan, line 263 *)

IsSubstring(x, d) == \E k \in 0..(Len(d) - Len(x)) : SubSeq(d, k + 1, k + Len(x)) = x

\* d.includes(x) for a subject name x
PayloadIncludes(d, x) == IsSubstring(Chars(x), d)

\* A lookup that wants the payload to be the name and nothing else.
FindSubjectExact(d) ==
  LET hits == {i \in DOMAIN GI_SUBJECTS : d = Chars(GI_SUBJECTS[i])}
  IN  IF hits = {} THEN <<>>
      ELSE <<GI_SUBJECTS[CHOOSE i \in hits : \A j \in hits : i <= j]>>

\* GI_SUBJECTS.find(x => d.includes(x)); <<>> stands for undefined
FindSubject(d) ==
  LET hits == {i \in DOMAIN GI_SUBJECTS : PayloadIncludes(d, GI_SUBJECTS[i])}
  IN  IF hits = {} THEN <<>>
      ELSE <<GI_SUBJECTS[CHOOSE i \in hits : \A j \in hits : i <= j]>>

Text(str) ==
  CASE str = "ISGI:" -> <<"I", "S", "G", "I", ":">>
    [] str = ";S1" -> <<";", "S", "1">>
    [] str = "|" -> <<"|">>

\* Payloads that hold exactly the name x
OneNamePayloads(x) == {Chars(x), Text("ISGI:") \o Chars(x) \o Text(";S1")}

\* Payloads that hold no name: empty, foreign text, a name cut short
NoNamePayloads == {<<>>, Text("ISGI:"), SubSeq(Chars(GI_SUBJECTS[1]), 1, 7)}

\* A payload that holds two names, the later one of GI_SUBJECTS first
TwoNamePayloads == {Chars(GI_SUBJECTS[2]) \o Text("|") \o Chars(GI_SUBJECTS[1])}

Payloads == UNION {OneNamePayloads(x) : x \in Picked} \cup NoNamePayloads \cup TwoNamePayloads

\* The codes a student meets in an ordinary session: the one posted for each
\* subject, and one that is not the school's.
PostedCodes == {Chars(x) : x \in Picked} \cup {Text("ISGI:")}

\* onScan(d), line 263, called by a tick that leaves the effect runs as cams.
onScan(cams, d) ==
  /\ step = "scanner"
  /\ LET s == FindSubject(d)
     IN  IF s # <<>>
         THEN startPedagogy(cams, s[1], Event("onScan", d))
         ELSE /\ lastEvent' = Event("onScan", d)
              /\ cameras' = cams
              /\ UNCHANGED <<step, sidebarOpen, showValidationErrors, PanelVars,
                             lastSubmissionId, AdminVars, studentId, formData, localStorage,
                             feedbacks, setup, pipelines, refreshes, lastRun, restored>>

\* The video element is rendered for run i (line 109): its QRScanner is on the
\* page and shows no error.
VideoShown(i) ==
  /\ ~cameras[i].unmounted
  /\ \A j \in DOMAIN cameras : cameras[j].unmounted \/ cameras[j].acquire # "denied"

\* getUserMedia resolves for run i, lines 58-64: the stream is stored, and the
\* first frame is requested if the video element is there.
getUserMediaResolved(i) ==
  /\ i \in DOMAIN cameras
  /\ cameras[i].acquire = "pending"
  /\ cameras' = [cameras EXCEPT ![i].acquire = "live",
                                ![i].frame = IF VideoShown(i) THEN "untracked" ELSE "none"]
  /\ lastEvent' = Event("getUserMedia", <<"resolved">>)
  /\ UNCHANGED <<step, sidebarOpen, showValidationErrors, PanelVars, lastSubmissionId,
                 AdminVars, studentId, formData, localStorage, feedbacks, setup,
                 pipelines, refreshes, lastRun, restored>>

\* getUserMedia rejects for run i, line 66: the QRScanner shows the error in
\* place of the video.
getUserMediaRejected(i) ==
  /\ i \in DOMAIN cameras
  /\ cameras[i].acquire = "pending"
  /\ cameras' = Unfinished([cameras EXCEPT ![i].acquire = "denied"])
  /\ lastEvent' = Event("getUserMedia", <<"rejected">>)
  /\ UNCHANGED <<step, sidebarOpen, showValidationErrors, PanelVars, lastSubmissionId,
                 AdminVars, studentId, formData, localStorage, feedbacks, setup,
                 pipelines, refreshes, lastRun, restored>>

\* The frame callback of run i, lines 70-85: when the video is shown and a
\* code is decoded from it (code = <<d>>), onScan(d) is called; the next
\* frame is requested and its id kept.  The state updates of onScan are
\* rendered once tick has returned.
tick(i, code) ==
  /\ i \in DOMAIN cameras
  /\ cameras[i].frame # "none"
  /\ LET ticked == [cameras EXCEPT ![i].frame = "tracked"]
     IN  IF code # <<>> /\ VideoShown(i)
         THEN onScan(ticked, code[1])
         ELSE /\ cameras' = ticked
              /\ lastEvent' = Event("tick", <<>>)
              /\ UNCHANGED <<step, sidebarOpen, showValidationErrors, PanelVars,
                             lastSubmissionId, AdminVars, studentId, formData, localStorage,
                             feedbacks, setup, pipelines, refreshes, lastRun, restored>>

----------------------------------------------------------------------------
(* Editing the form, lines 513-532 *)

FieldsShown == IF step = "form_pedagogy" THEN PedagogyFields ELSE EnvFields

EditForm(fd) ==
  /\ step \in {"form_pedagogy", "form_env"}
  /\ formData' = fd
  /\ localStorage' = PersistDraft(localStorage, fd)
  /\ lastEvent' = Event("edit", <<>>)
  /\ UNCHANGED cameras
  /\ restored' = <<>>
  /\ UNCHANGED <<step, sidebarOpen, showValidationErrors, PanelVars, lastSubmissionId,
                 AdminVars, studentId, feedbacks, setup, pipelines, refreshes, lastRun>>

\* QuestionCard onChange of field f: setFormData({ ...formData, [f]: v })
SetAnswer(f, v) == f \in Range(FieldsShown) /\ EditForm([formData EXCEPT ![f] = v])

\* The question the student answers when going down the form: the first
\* one shown that has no answer yet.
NextQuestion ==
  LET open == {i \in DOMAIN FieldsShown : formData[FieldsShown[i]] = Null}
  IN  IF open = {} THEN {} ELSE {FieldsShown[CHOOSE i \in open : \A j \in open : i <= j]}

\* textarea onChange, line 532
SetComments(c) == EditForm([formData EXCEPT !.comments = c])

----------------------------------------------------------------------------
(* handleFormSubmit, lines 230-251 *)

\* A test that lets a form through one answer short.
ValidationFailsBelowFour(fd) == progressStats(fd).completed < 4

\* The test of line 232.
ValidationFails(fd) == progressStats(fd).completed < 5

\* A run that calls analyzeFeedback without awaiting saveFeedback.
NewPipelineUnawaited(fd, sid) ==
  [fd |-> fd, sid |-> sid, pc |-> "save", log |-> <<"save:start", "analyze:start">>]

\* A test of the student id that lets every id through.
StudentMissingNever(sid) == FALSE

\* The test of line 238: !studentId.
StudentMissing(sid) == sid = ""

\* A run suspended at an await: the formData and studentId of the render that
\* submitted, the call it awaits, and the calls it made so far.
NewPipeline(fd, sid) == [fd |-> fd, sid |-> sid, pc |-> "save", log |-> <<"save:start">>]

RemoveAt(seq, i) == SubSeq(seq, 1, i - 1) \o SubSeq(seq, i + 1, Len(seq))

\* Lines 241-243 once saveFeedback has resolved: analyzeFeedback is called.
AfterSave(p) ==
  [p EXCEPT !.pc = "analyze", !.log = p.log \o <<"save:ok", "analyze:start">>]

\* Lines 243-244 once analyzeFeedback has resolved: sendAnalysisToAdmin is called.
AfterAnalyze(p) ==
  [p EXCEPT !.pc = "notify", !.log = p.log \o <<"analyze:ok", "notify:start">>]

\* Lines 245-247 once sendAnalysisToAdmin has resolved.
AfterNotify(p) == p.log \o <<"notify:ok", "clear", "thanks">>

\* The catch clause, lines 248-250, entered from the call that failed.
AfterFailure(p) == p.log \o <<p.pc \o ":fail", "thanks">>

\* A catch clause that leaves the step alone: the fault the progress
\* property of the submission guards against.
CatchStepStuck == "submitting"

\* The step the catch clause sets.
CatchStep == "thanks"

\* The submit event of the form, line 504.
handleFormSubmit ==
  /\ step \in {"form_pedagogy", "form_env"}
  /\ lastEvent' = Event("submit", <<>>)
  /\ UNCHANGED cameras
  /\ IF ValidationFails(formData)
     THEN /\ showValidationErrors' = TRUE
          /\ UNCHANGED <<step, sidebarOpen, PanelVars, lastSubmissionId, AdminVars, studentId,
                         formData, localStorage, feedbacks, setup, pipelines, refreshes,
                         lastRun, restored>>
     ELSE IF StudentMissing(studentId)
     THEN \* line 239 throws before any await: the catch runs in the same event
          /\ RoomForRefresh
          /\ step' = CatchStep
          /\ refreshes' = RefreshEffect(CatchStep, sidebarOpen, refreshes)
          /\ lastRun' = <<"throw", "thanks">>
          /\ UNCHANGED <<sidebarOpen, showValidationErrors, PanelVars, lastSubmissionId,
                         AdminVars, studentId, formData, localStorage, feedbacks, setup,
                         pipelines, restored>>
     ELSE /\ RoomForRefresh
          /\ Len(pipelines) < MaxPipelines
          /\ step' = "submitting"
          /\ refreshes' = RefreshEffect("submitting", sidebarOpen, refreshes)
          /\ pipelines' = Append(pipelines, NewPipeline(formData, studentId))
          /\ UNCHANGED <<sidebarOpen, showValidationErrors, PanelVars, lastSubmissionId,
                         AdminVars, studentId, formData, localStorage, feedbacks, setup,
                         lastRun, restored>>

\* The awaited call of run i rejects: the catch clause sets the step.
Caught(i) ==
  /\ step' = CatchStep
  /\ refreshes' = RefreshEffect(CatchStep, sidebarOpen, refreshes)
  /\ lastRun' = AfterFailure(pipelines[i])
  /\ pipelines' = RemoveAt(pipelines, i)
  /\ UNCHANGED <<sidebarOpen, showValidationErrors, PanelVars, lastSubmissionId, AdminVars,
                 studentId, formData, localStorage, feedbacks, setup, restored>>

\* saveFeedback settles, line 241.
SaveSettled(i, ok) ==
  /\ i \in DOMAIN pipelines
  /\ pipelines[i].pc = "save"
  /\ lastEvent' = Event("saveSettled", <<>>)
  /\ UNCHANGED cameras
  /\ IF ok
     THEN /\ Len(feedbacks) < MaxRows
          /\ feedbacks' = Append(feedbacks,
                                 FeedbackRow(pipelines[i].fd, pipelines[i].sid, feedbacks))
          /\ lastSubmissionId' = FeedbackRow(pipelines[i].fd, pipelines[i].sid, feedbacks).id
          /\ pipelines' = [pipelines EXCEPT ![i] = AfterSave(pipelines[i])]
          /\ UNCHANGED <<step, sidebarOpen, showValidationErrors, PanelVars, AdminVars,
                         studentId, formData, localStorage, setup, refreshes, lastRun,
                         restored>>
     ELSE Caught(i)

\* analyzeFeedback settles, line 243.
AnalyzeSettled(i, ok) ==
  /\ i \in DOMAIN pipelines
  /\ pipelines[i].pc = "analyze"
  /\ lastEvent' = Event("analyzeSettled", <<>>)
  /\ UNCHANGED cameras
  /\ IF ok
     THEN /\ pipelines' = [pipelines EXCEPT ![i] = AfterAnalyze(pipelines[i])]
          /\ UNCHANGED <<step, sidebarOpen, showValidationErrors, PanelVars, lastSubmissionId,
                         AdminVars, studentId, formData, localStorage, feedbacks, setup,
                         refreshes, lastRun, restored>>
     ELSE Caught(i)

\* sendAnalysisToAdmin settles, line 244; lines 245-247 follow, and the draft
\* effect of line 158 runs on the render that setFormData causes.
NotifySettled(i, ok) ==
  /\ i \in DOMAIN pipelines
  /\ pipelines[i].pc = "notify"
  /\ lastEvent' = Event("notifySettled", <<>>)
  /\ UNCHANGED cameras
  /\ IF ok
     THEN /\ formData' = initialFormData
          /\ localStorage' = PersistDraft(removeItem(localStorage, DRAFT_KEY), initialFormData)
          /\ step' = "thanks"
          /\ refreshes' = RefreshEffect("thanks", sidebarOpen, refreshes)
          /\ lastRun' = AfterNotify(pipelines[i])
          /\ pipelines' = RemoveAt(pipelines, i)
          /\ restored' = <<>>
          /\ UNCHANGED <<sidebarOpen, showValidationErrors, PanelVars, lastSubmissionId,
                         AdminVars, studentId, feedbacks, setup>>
     ELSE Caught(i)

\* Run i resumes from its await.
PipelineStep(i) ==
  \E ok \in BOOLEAN : SaveSettled(i, ok) \/ AnalyzeSettled(i, ok) \/ NotifySettled(i, ok)

----------------------------------------------------------------------------
(* Specifications *)

\* The queries of one refresh are answered against the same table.
RefreshSettles ==
  \/ \E r \in BagToSet(refreshes) : \E n \in 0..Len(feedbacks) : RefreshResolved(r, n, n, n, n)
  \/ \E r \in BagToSet(refreshes) : RefreshRejected(r)

\* One session of the wizard, the forms being opened from the hub: every
\* gesture but scanning and reloading the page.  The student answers the
\* questions of a form from top to bottom.
Session ==
  \/ SetupResolved
  \/ SetupRejected
  \/ RefreshSettles
  \/ LogoClick
  \/ WelcomeStart
  \/ FormBack
  \/ ThanksBack
  \/ \E s \in Picked : HubSubject(s)
  \/ HubEnvironment
  \/ HubNextStep
  \/ \E f \in NextQuestion : \E v \in Answers(f) : SetAnswer(f, v)
  \/ handleFormSubmit
  \/ \E i \in 1..MaxPipelines : PipelineStep(i)

Next == Session \/ Reload

Spec == Init /\ [][Next]_vars

\* Filling in forms: the student opens a form from the hub, answers its
\* questions in any order, writes a comment, submits at any moment, and stops
\* on the thanks screen.
FillingForms ==
  \/ SetupResolved
  \/ SetupRejected
  \/ RefreshSettles
  \/ WelcomeStart
  \/ FormBack
  \/ \E s \in Picked : HubSubject(s)
  \/ HubEnvironment
  \/ \E f \in Range(FieldsShown) : \E v \in Answers(f) : SetAnswer(f, v)
  \/ \E c \in Comments : SetComments(c)
  \/ handleFormSubmit
  \/ \E i \in 1..MaxPipelines : PipelineStep(i)

SpecForm == Init /\ [][FillingForms]_vars

\* Drafting: the student opens forms, answers in any order, leaves them, and
\* reloads the page at any moment; nothing is submitted.
Drafting ==
  \/ SetupResolved
  \/ SetupRejected
  \/ RefreshSettles
  \/ Reload
  \/ WelcomeStart
  \/ FormBack
  \/ \E s \in Picked : HubSubject(s)
  \/ HubEnvironment
  \/ \E f \in Range(FieldsShown) : \E v \in Answers(f) : SetAnswer(f, v)
  \/ \E c \in Comments : SetComments(c)

SpecDraft == Init /\ [][Drafting]_vars

\* The form of a subject with its five questions answered.
FilledForm(subject) ==
  LET fields == IF subject = ENV_SUBJECT THEN EnvFields ELSE PedagogyFields
  IN  [f \in DOMAIN initialFormData |->
         IF f = "subject" THEN subject
         ELSE IF f \in Range(fields) THEN CHOOSE v \in Answers(f) : TRUE
         ELSE initialFormData[f]]

\* The table after the forms of the given subjects were saved one by one.
RECURSIVE TableOf(_)
TableOf(subjects) ==
  IF subjects = <<>> THEN <<>>
  ELSE LET before == TableOf(SubSeq(subjects, 1, Len(subjects) - 1))
       IN  Append(before, FeedbackRow(FilledForm(subjects[Len(subjects)]), STUDENT, before))

HistorySubjects == {GI_SUBJECTS[i] : i \in 1..NumHistorySubjects} \cup {ENV_SUBJECT}

\* The tables a student's earlier sessions can have left: every row comes from
\* a submitted form, and nothing keeps a subject from being saved twice.
Histories == {TableOf(s) : s \in UNION {[1..n -> HistorySubjects] : n \in 0..MaxHistory}}

\* The page opened over the table of earlier sessions, the draft being blank
\* as the last successful submission left it.
InitHistory == \E rows \in Histories : Opened(NoStorage, rows)

\* Browsing: the student moves between welcome and hub while the history
\* loads.
Browsing ==
  \/ SetupResolved
  \/ SetupRejected
  \/ RefreshSettles
  \/ LogoClick
  \/ WelcomeStart

SpecHistory == InitHistory /\ [][Browsing]_vars

\* Going through the wizard once, from welcome to thanks by the scanner's
\* screen and a form, while the sidebar is opened and closed at any moment.
Overlaying ==
  \/ SetupResolved
  \/ RefreshSettles
  \/ WelcomeStart
  \/ OpenScanner
  \/ CloseScanner
  \/ \E s \in Picked : HubSubject(s)
  \/ HubEnvironment
  \/ \E f \in NextQuestion : \E v \in Answers(f) : SetAnswer(f, v)
  \/ handleFormSubmit
  \/ \E i \in 1..MaxPipelines : PipelineStep(i)
  \/ \E open \in BOOLEAN : SetSidebar(open)

SpecSidebar == Init /\ [][Overlaying]_vars

\* Using the admin console: the sidebar is opened and closed, texts are typed
\* into the password field, the gate is tried and the history is exported,
\* while the student moves between welcome and hub.
Administering ==
  \/ SetupResolved
  \/ RefreshSettles
  \/ LogoClick
  \/ WelcomeStart
  \/ \E open \in BOOLEAN : SetSidebar(open)
  \/ \E text \in AdminInputs : SetAdminPasswordInput(text)
  \/ AdminLogin
  \/ downloadHistoryCSV

SpecAdmin == Init /\ [][Administering]_vars

\* The page opened over a table holding a course form and the environment
\* form of an earlier session.
InitRefresh == Opened(NoStorage, TableOf(<<GI_SUBJECTS[1], ENV_SUBJECT>>))

\* Refreshing: the student moves between welcome and hub while the four
\* queries of each refresh are answered one by one, in any order, or one fails.
Refreshing ==
  \/ SetupResolved
  \/ LogoClick
  \/ WelcomeStart
  \/ \E r \in BagToSet(refreshes) : \E q \in Queries :
       QueryFulfilled(r, q, Len(feedbacks))
  \/ \E r \in BagToSet(refreshes) : PromiseAllFulfilled(r)
  \/ \E r \in BagToSet(refreshes) : RefreshRejected(r)

SpecRefresh == InitRefresh /\ [][Refreshing]_vars

\* Racing: one form is filled in and submitted while every refresh resolves,
\* each at its own time and showing the table as it was at any moment since
\* the refresh was started.
Racing ==
  \/ SetupResolved
  \/ \E r \in BagToSet(refreshes) : \E n \in 0..Len(feedbacks) : RefreshResolved(r, n, n, n, n)
  \/ WelcomeStart
  \/ \E s \in Picked : HubSubject(s)
  \/ HubEnvironment
  \/ \E f \in NextQuestion : \E v \in Answers(f) : SetAnswer(f, v)
  \/ handleFormSubmit
  \/ \E i \in 1..MaxPipelines : PipelineStep(i)

SpecRace == Init /\ [][Racing]_vars

\* Scanning: the student points the camera at codes of every kind, and
\* answers some questions of the form a code opens.
Scanning ==
  \/ SetupResolved
  \/ SetupRejected
  \/ RefreshSettles
  \/ WelcomeStart
  \/ OpenScanner
  \/ CloseScanner
  \/ FormBack
  \/ \E i \in 1..MaxCameras : getUserMediaResolved(i)
  \/ \E i \in 1..MaxCameras : \E d \in Payloads : tick(i, <<d>>)
  \/ \E f \in NextQuestion : \E v \in Answers(f) : SetAnswer(f, v)

SpecScan == Init /\ [][Scanning]_vars

\* Capturing: the scanner is opened and closed while the camera request, the
\* frames and the renders of App come in any order.
Capturing ==
  \/ SetupResolved
  \/ RefreshSettles
  \/ WelcomeStart
  \/ OpenScanner
  \/ CloseScanner
  \/ FormBack
  \/ \E i \in 1..MaxCameras : getUserMediaResolved(i)
  \/ \E i \in 1..MaxCameras : getUserMediaRejected(i)
  \/ \E i \in 1..MaxCameras : \E code \in {<<>>} \cup {<<d>> : d \in PostedCodes} : tick(i, code)

SpecCamera == Init /\ [][Capturing]_vars

\* The sessions of the wizard, with no assumption on what settles.
SpecSession == Init /\ [][Session]_vars

\* A session in which every backend call of a submission settles: a promise
\* returned by saveFeedback, analyzeFeedback or sendAnalysisToAdmin resolves
\* or rejects, and the event loop then resumes the awaiting run.
SpecLive == Init /\ [][Session]_vars /\ \A i \in 1..MaxPipelines : WF_vars(PipelineStep(i))

----------------------------------------------------------------------------
(* Properties of handleFormSubmit *)

FormSteps == {"form_pedagogy", "form_env"}

\* The five questions of the subject of fd, read off the form markup
\* (lines 511-530) rather than off progressStats.
QuestionsOf(fd) ==
  IF fd.subject = ENV_SUBJECT
  THEN {"q6_jobs", "q7_rooms", "q8_resources", "q9_transport", "q10_laptop"}
  ELSE {"q1", "q2", "q3", "q4", "q5"}

Answered(fd) == {f \in QuestionsOf(fd) : fd[f] # Null}

\* This step is a submit event.
Submits == step \in FormSteps /\ lastEvent'[1] = "submit"

\* C1: a submit of a form whose five answers are all given leaves the form for
\* 'submitting' or 'thanks' at once, and a wizard showing 'submitting' always
\* comes to show 'thanks', whatever the backend calls answer.
C1_SubmitReachesThanks ==
  /\ [][Submits /\ Cardinality(Answered(formData)) = 5
          => step' \in {"submitting", "thanks"}]_vars
  /\ (step = "submitting") ~> (step = "thanks")

\* C1 witness: the thanks screen after a submission whose first call failed.
C1_ThanksAfterFailure ==
  /\ step = "thanks"
  /\ lastRun = <<"save:start", "save:fail", "thanks">>

\* C2: a submit with fewer than five of the subject's questions answered
\* starts no run of the pipeline and adds no row, leaves the step and formData
\* as they were, and leaves showValidationErrors true.
C2_ShortSubmitRejected ==
  [][Submits /\ Cardinality(Answered(formData)) < 5
       => /\ pipelines' = pipelines
          /\ feedbacks' = feedbacks
          /\ step' = step
          /\ formData' = formData
          /\ showValidationErrors' = TRUE]_vars

\* C2 witness: the banner is up after a submit with four answers.
C2_BannerAfterFourAnswers ==
  /\ step \in FormSteps
  /\ lastEvent[1] = "submit"
  /\ Cardinality(Answered(formData)) = 4
  /\ showValidationErrors

\* C5: completed counts the answered questions of the subject, percentage is
\* 100 * completed / 5 rounded to the nearest integer, and a submit leaves the
\* form exactly when completed = 5.
C5_ProgressStats ==
  /\ [](/\ progressStats(formData).completed = Cardinality(Answered(formData))
        /\ 2 * (5 * progressStats(formData).percentage
                  - 100 * Cardinality(Answered(formData))) \in -5..4)
  /\ [][Submits => (step' # step <=> progressStats(formData).completed = 5)]_vars

\* C5 witness: an environment form with three answers, one of them skipped over.
C5_ThreeEnvAnswers ==
  /\ step = "form_env"
  /\ formData.q6_jobs = Null
  /\ Cardinality(Answered(formData)) = 3
  /\ progressStats(formData).percentage = 60

----------------------------------------------------------------------------
(* Properties of the table and of the hub *)

\* C3: the table holds at most one row per (student_id, subject).
C3_OneRowPerStudentSubject ==
  \A i, j \in DOMAIN feedbacks :
    (/\ feedbacks[i].student_id = feedbacks[j].student_id
     /\ feedbacks[i].subject = feedbacks[j].subject) => i = j

\* C4: from the hub, no step enters the form of a subject that the loaded
\* history holds.
C4_DoneSubjectNotEntered ==
  [][step = "hub"
       => /\ ~(step' = "form_env" /\ envAuditDone)
          /\ ~(step' = "form_pedagogy" /\ Includes(completedSubjects, formData'.subject))]_vars

----------------------------------------------------------------------------
(* Properties of the QR scan *)

\* The names of GI_SUBJECTS that occur in the text d.
NamesIn(d) == {x \in Range(GI_SUBJECTS) : IsSubstring(Chars(x), d)}

\* This step is the handling of a decoded payload d.
Scans(d) == step = "scanner" /\ lastEvent' = Event("onScan", d)

\* C7: a scanned payload holding exactly one subject name opens that subject's
\* course form; one holding none leaves the scanner and formData as they are.
C7_ScanOneOrNone ==
  [][\A d \in Payloads :
       Scans(d) =>
         /\ \A x \in NamesIn(d) :
              NamesIn(d) = {x} => formData'.subject = x /\ step' = "form_pedagogy"
         /\ NamesIn(d) = {} => step' = "scanner" /\ formData' = formData]_vars

\* C7 witness: a course form opened by a payload that wraps the name.
C7_FormOpenedByScan ==
  /\ lastEvent = Event("onScan", Text("ISGI:") \o Chars(GI_SUBJECTS[1]) \o Text(";S1"))
  /\ step = "form_pedagogy"
  /\ formData.subject = GI_SUBJECTS[1]

----------------------------------------------------------------------------
(* Properties of the submission pipeline *)

\* The call logs of the runs in flight and of the run that ended last.
Logs == {pipelines[i].log : i \in DOMAIN pipelines} \cup {lastRun}

Positions(log, entry) == {k \in DOMAIN log : log[k] = entry}

\* Every entry a in log has an entry b before it.
Follows(log, a, b) == \A k \in Positions(log, a) : \E m \in Positions(log, b) : m < k

Calls == {"save", "analyze", "notify"}

\* The calls started and not yet settled after the first k entries of log.
InProgress(log, k) ==
  {c \in Calls :
     Cardinality({m \in 1..k : log[m] = c \o ":start"})
       > Cardinality({m \in 1..k : log[m] \in {c \o ":ok", c \o ":fail"}})}

\* C9: in every run analyzeFeedback starts after saveFeedback completed,
\* sendAnalysisToAdmin after analyzeFeedback completed, the draft is cleared
\* after sendAnalysisToAdmin completed, and at most one call is in progress.
C9_PipelineInOrder ==
  \A log \in Logs :
    /\ Follows(log, "analyze:start", "save:ok")
    /\ Follows(log, "notify:start", "analyze:ok")
    /\ Follows(log, "clear", "notify:ok")
    /\ \A k \in DOMAIN log : Cardinality(InProgress(log, k)) <= 1

\* C9 witness: a run that went through all four steps.
C9_FullRun ==
  lastRun = <<"save:start", "save:ok", "analyze:start", "analyze:ok",
              "notify:start", "notify:ok", "clear", "thanks">>

\* C10: a run in which analyzeFeedback failed still called sendAnalysisToAdmin.
C10_NotifyDespiteAnalyzeFailure ==
  Includes(lastRun, "analyze:fail") => Includes(lastRun, "notify:start")

----------------------------------------------------------------------------
(* Properties of the draft and of the progress figure *)

\* C8: from a reload until the draft is edited, submitted or replaced by
\* another subject's, formData is the formData of before the reload: on the
\* welcome screen, on the hub, and in the subject's form once it is reopened.
C8_DraftSurvivesReload == restored # <<>> => formData = restored[1]

\* C8 witness: a course form reopened after a reload, with two of its five
\* answers and its comment as they were.
C8_ReopenedWithTwoAnswers ==
  /\ restored # <<>>
  /\ lastEvent = Event("hubSubject", <<GI_SUBJECTS[1]>>)
  /\ step = "form_pedagogy"
  /\ Answered(formData) = {"q2", "q4"}
  /\ formData.comments = "RAS"

\* C6: globalProgression is 100 * (completedSubjects.length + envAuditDone)
\* / (number of subjects + 1) rounded to the nearest integer; it is 25 with
\* three completed of eleven subjects and no environment audit.
C6_GlobalProgression ==
  LET done == Len(completedSubjects) + (IF envAuditDone THEN 1 ELSE 0)
      total == Len(GI_SUBJECTS) + 1
  IN  /\ 2 * (total * globalProgression - 100 * done) \in -total..(total - 1)
      /\ (Len(GI_SUBJECTS) = 11 /\ Len(completedSubjects) = 3 /\ ~envAuditDone)
           => globalProgression = 25

\* C6 witness: three courses loaded from the history, no environment audit.
C6_ThreeOfTwelve ==
  /\ lastEvent[1] = "refreshResolved"
  /\ Len(completedSubjects) = 3
  /\ ~envAuditDone
  /\ globalProgression = 25

----------------------------------------------------------------------------
(* Properties of the end of a submission *)

\* The call log of a run in which the three calls succeeded.
SuccessLog ==
  <<"save:start", "save:ok", "analyze:start", "analyze:ok",
    "notify:start", "notify:ok", "clear", "thanks">>

\* C11: on the thanks screen reached by a fully successful submission, local
\* storage holds no entry under DRAFT_KEY.
C11_DraftDeletedAfterSuccess ==
  (step = "thanks" /\ lastRun = SuccessLog) => DRAFT_KEY \notin DOMAIN localStorage

\* C12: a submit of five answers with an empty studentId starts no run of the
\* pipeline and adds no row, and ends on the thanks screen; no run in flight
\* and no row of the table carries an empty student id.
C12_NoSaveWithoutStudent ==
  /\ [][(Submits /\ Cardinality(Answered(formData)) = 5 /\ studentId = "")
          => /\ pipelines' = pipelines
             /\ feedbacks' = feedbacks
             /\ step' = "thanks"]_vars
  /\ [](/\ \A i \in DOMAIN pipelines : pipelines[i].sid # ""
        /\ \A i \in DOMAIN feedbacks : feedbacks[i].student_id # "")

\* C12 witness: the thanks screen after a submit that initStudent's failure
\* left without a student id.
C12_BlockedSubmit ==
  /\ setup = "failed"
  /\ studentId = ""
  /\ step = "thanks"
  /\ lastEvent[1] = "submit"
  /\ feedbacks = <<>>

\* C13 as stated: every step that leaves 'thanks' goes to 'hub'.
C13_ThanksOnlyToHub == [][(step = "thanks" /\ step' # "thanks") => step' = "hub"]_vars

\* C13 amended: the button of the thanks screen goes to 'hub', and the only
\* other way out of 'thanks' is the header logo, which goes to 'welcome'.
C13_ThanksToHubOrLogo ==
  [][(step = "thanks" /\ step' # "thanks")
       => \/ step' = "hub" /\ lastEvent'[1] = "thanksBack"
          \/ step' = "welcome" /\ lastEvent'[1] = "logo"]_vars

\* C13 witness: the hub reached by the button of the thanks screen.
C13_BackOnHub == step = "hub" /\ lastEvent[1] = "thanksBack"

\* C16: on the thanks screen of a run whose saveFeedback succeeded, formData is
\* the blank record and the stored draft holds nothing of the submitted form.
C16_ClearedOnceSaved ==
  (step = "thanks" /\ Includes(lastRun, "save:ok"))
    => /\ formData = initialFormData
       /\ LoadDraft(localStorage) = initialFormData

-----------------------------------------------------------------------------
(* Properties of entering a form *)

\* The record with the given subject, ten null answers and no comment.
BlankFor(subject) ==
  [subject |-> subject, q1 |-> Null, q2 |-> Null, q3 |-> Null, q4 |-> Null, q5 |-> Null,
   q6_jobs |-> Null, q7_rooms |-> Null, q8_resources |-> Null, q9_transport |-> Null,
   q10_laptop |-> Null, comments |-> ""]

\* This step enters the form of the subject from the hub.
Enters(subject) ==
  /\ step = "hub"
  /\ \/ subject # ENV_SUBJECT /\ lastEvent' = Event("hubSubject", <<subject>>)
     \/ subject = ENV_SUBJECT /\ lastEvent' = Event("hubEnvironment", <<>>)

\* C15: entering the form of a subject leaves formData as it is when it already
\* is that subject's, makes it the blank record of that subject otherwise, and
\* in both cases clears showValidationErrors and shows the subject's form.
C15_EnterResumesOrBlanks ==
  [][\A subject \in Picked \cup {ENV_SUBJECT} :
       Enters(subject)
         => /\ formData' = IF formData.subject = subject THEN formData ELSE BlankFor(subject)
            /\ showValidationErrors' = FALSE
            /\ step' = IF subject = ENV_SUBJECT THEN "form_env" ELSE "form_pedagogy"]_vars

\* A course form reopened from the hub with two answers still in it.
C15_ResumedWithAnswers ==
  /\ step = "form_pedagogy"
  /\ lastEvent[1] = "hubSubject"
  /\ Cardinality(Answered(formData)) = 2
  /\ formData.comments # ""

-----------------------------------------------------------------------------
(* Properties of refreshStats *)

\* C17: the five panel values change only in the step in which a refresh
\* whose four queries have all been answered stores them, and the step in which
\* a refresh fails changes none of them.
C17_PanelAfterAllFour ==
  [][/\ PanelVars' # PanelVars
          => /\ lastEvent'[1] = "refreshResolved"
             /\ \E r \in BagToSet(refreshes) :
                  /\ \A q \in Queries : r.answered[q] # <<>>
                  /\ refreshes' = refreshes (-) SetToBag({r})
     /\ lastEvent'[1] = "refreshRejected" => PanelVars' = PanelVars]_vars

\* A refresh failed after three of its queries were answered, and the panel
\* still shows nothing of the two rows of the table.
C17_FailedAfterThree ==
  /\ lastEvent[1] = "refreshRejected"
  /\ Len(feedbacks) = 2
  /\ globalStats.totalFeedbacks = 0
  /\ completedSubjects = <<>>
  /\ ~envAuditDone

-----------------------------------------------------------------------------
(* Properties of the global progress *)

\* C19: once the panel shows the student's history, the numerator of
\* globalProgression is the number of distinct course subjects in that history,
\* plus one when the history holds the environment audit.
C19_CountsDistinctSubjects ==
  LET history == getHistory(feedbacks)
      subjects == {history[i].subject : i \in DOMAIN history}
  IN  (/\ lastEvent[1] = "refreshResolved"
       /\ completedSubjects = CompletedOf(history)
       /\ envAuditDone = EnvDoneOf(history))
        => currentProgressCount
             = Cardinality(subjects \ {ENV_SUBJECT})
                 + (IF ENV_SUBJECT \in subjects THEN 1 ELSE 0)

-----------------------------------------------------------------------------
(* Properties of the admin sidebar *)

\* C18: in every step the sidebar can be opened when closed and closed when
\* open, and a step that opens or closes it leaves the step, formData and the
\* stored draft as they were.
C18_SidebarOrthogonal ==
  /\ []((RoomForRefresh /\ Len(AfterRender(cameras, step)) <= MaxCameras)
          => ENABLED SetSidebar(~sidebarOpen))
  /\ [][sidebarOpen' # sidebarOpen
          => /\ step' = step
             /\ formData' = formData
             /\ localStorage' = localStorage]_vars

\* The sidebar was opened over the submitting screen of a form with answers.
C18_OpenedWhileSubmitting ==
  /\ step = "submitting"
  /\ sidebarOpen
  /\ lastEvent[1] = "sidebar"
  /\ Answered(formData) # {}

\* C20: the console unlocks only in an authentication attempt made with the
\* text 'ADMIN2026' in the field, an attempt with any other text leaves it
\* locked, and the history is exported only from the unlocked console.
C20_PasswordGate ==
  [][/\ (isAdminAuthenticated' /\ ~isAdminAuthenticated)
          => lastEvent'[1] = "adminLogin" /\ adminPasswordInput = "ADMIN2026"
     /\ (lastEvent'[1] = "adminLogin" /\ adminPasswordInput # "ADMIN2026")
          => ~isAdminAuthenticated'
     /\ lastEvent'[1] = "downloadHistoryCSV" => isAdminAuthenticated]_vars

\* The history was exported from the unlocked console.
C20_ExportedOnceUnlocked ==
  /\ lastEvent[1] = "downloadHistoryCSV"
  /\ isAdminAuthenticated
  /\ adminPasswordInput = "ADMIN2026"

-----------------------------------------------------------------------------
(* Properties of the scanner's camera *)

\* C14: while the scanner is closed, no run of its effect holds a stream
\* whose tracks are not stopped, and none has a frame callback scheduled.
C14_CameraReleased ==
  step # "scanner"
    => \A i \in DOMAIN cameras : cameras[i].acquire # "live" /\ cameras[i].frame = "none"

-----------------------------------------------------------------------------
(* Properties of the forms and of what they submit *)

CourseAnswers == {"q1", "q2", "q3", "q4", "q5"}

EnvironmentAnswers == {"q6_jobs", "q7_rooms", "q8_resources", "q9_transport", "q10_laptop"}

\* fd has the five answers of its kind and none of the other kind, and a subject.
CompleteForKind(fd) ==
  IF fd.subject = "ENVIRONNEMENT_GLOBAL"
  THEN /\ \A f \in EnvironmentAnswers : fd[f] # Null
       /\ \A f \in CourseAnswers : fd[f] = Null
  ELSE /\ fd.subject # ""
       /\ \A f \in CourseAnswers : fd[f] # Null
       /\ \A f \in EnvironmentAnswers : fd[f] = Null

\* C21: every feedback handed to saveFeedback, and so every row of the
\* table, has a subject, the five answers of its kind and no answer of the
\* other kind.
C21_SavedFeedbackComplete ==
  /\ \A i \in DOMAIN pipelines : CompleteForKind(pipelines[i].fd)
  /\ \A i \in DOMAIN feedbacks : CompleteForKind(feedbacks[i])

\* The environment audit was saved after a course form had been begun.
C21_EnvironmentRowSaved ==
  /\ \E i \in DOMAIN feedbacks : feedbacks[i].subject = ENV_SUBJECT
  /\ lastEvent[1] = "saveSettled"

\* C22: the course form is shown over a formData whose subject is a course of
\* GI_SUBJECTS and the environment form over one whose subject is the
\* environment audit, so that progressStats counts the answers of the form
\* that is shown.
C22_FormMatchesSubject ==
  /\ step = "form_env" => formData.subject = "ENVIRONNEMENT_GLOBAL"
  /\ step = "form_pedagogy" => formData.subject \in Range(GI_SUBJECTS)
  /\ step \in FormSteps
       => Answered(formData) = {f \in Range(FieldsShown) : formData[f] # Null}

\* The environment form shown again, after a reload, over the answers of its draft.
C22_EnvironmentDraftResumed ==
  /\ step = "form_env"
  /\ restored # <<>>
  /\ Answered(formData) # {}

-----------------------------------------------------------------------------
(* Properties of the thanks screen and of concurrent runs *)

\* C23: on the thanks screen a run of handleFormSubmit has just led to,
\* lastSubmissionId is the id of the row that run saved, and it is never the
\* id of a row saved by an earlier run.
C23_TokenOfThisSubmission ==
  (step = "thanks" /\ lastRun # <<>>)
    => IF Includes(lastRun, "save:ok")
       THEN lastSubmissionId = feedbacks[Len(feedbacks)].id
       ELSE \A i \in DOMAIN feedbacks : lastSubmissionId # feedbacks[i].id

\* C25: at most one run of handleFormSubmit is suspended at a time: while a
\* run is suspended the step is 'submitting', where no form is shown, and a
\* submit event only comes when no run is suspended.
C25_OneRunAtATime ==
  /\ [](/\ Len(pipelines) <= 1
        /\ pipelines # <<>> => step = "submitting")
  /\ [][lastEvent'[1] = "submit" => pipelines = <<>>]_vars

\* A run awaiting its last call while the submitting screen is still shown.
C25_RunAwaitingNotify ==
  /\ step = "submitting"
  /\ Len(pipelines) = 1
  /\ pipelines[1].pc = "notify"

\* C24: once every refresh has resolved and no submission is under way, the
\* panel shows what the refresh started last has read: that refresh was
\* started by the last change of step, after the last row was saved, so it has
\* read the table as it is now.
C24_NewestRefreshWins ==
  (refreshes = EmptyBag /\ pipelines = <<>>)
    => /\ completedSubjects = CompletedOf(getHistory(feedbacks))
       /\ envAuditDone = EnvDoneOf(getHistory(feedbacks))

=============================================================================
